---------------------------- MODULE Spec2Model ----------------------------
(***************************************************************************)
(* sbfi - simple brainfuck interpreter (src/sbfi.c).                       *)
(*                                                                         *)
(* The model follows the C source: the tape (stack, stack_size, ptr), the  *)
(* recursive interpret() with one call frame per active call, getch() with *)
(* its terminal mode switch, parse_err() and main()'s interactive loop.    *)
(* Positions in the program text are 0-based as in the C code; TLA+        *)
(* sequences are 1-based, so in[k] is prog[in + k + 1].                    *)
(***************************************************************************)
EXTENDS Integers, Sequences, FiniteSets, TLC

VARIABLES
    mode,        \* "file" (infile != NULL) or "interactive"
    debug,       \* static int debug
    stack_size,  \* unsigned int stack_size
    cells,       \* the calloc'ed stack: index 0..stack_size-1 -> byte
    ptr,         \* ptr - stack_start: the cursor
    prog,        \* the text handed to the outermost interpret(): command / line_buf
    calls,       \* the C call stack of interpret(): one frame per active call
    pc,          \* "reading", "loaded", "prompt", "fetch", "while", "getchar", "done", "exited"
    err,         \* message given to parse_err, or "none"
    out,         \* bytes written to stdout by putchar (l.123) and by getch's echo (l.78)
    term,        \* c_lflag of the terminal: [icanon, echo]
    old_tio,     \* getch's local old_tio
    nlines,      \* number of lines read by the interactive loop
    last,        \* the instruction or command executed by the latest step
    steps,       \* steps taken by the running interpret() call
    ref,         \* reference interpreter (jump table + instruction pointer), run in lockstep
    rerun,       \* a program run twice on the same tape and input: which run, what the first gave
    file         \* main()'s reading loop: strlen(command), the bytes written to command[]

vars == <<mode, debug, stack_size, cells, ptr, prog, calls, pc, err, out, term,
          old_tio, nlines, last, steps, ref, rerun, file>>

config == <<mode, debug, stack_size>>

-----------------------------------------------------------------------------
(* Bounds of the model *)

MaxTape == 2        \* tape sizes 1..MaxTape
MaxProgLen == 2     \* every text over Alphabet up to this length is executed
MaxOut == 3         \* at most this many output bytes are recorded
MaxLines == 3       \* lines read in one interactive session
MaxFileLines == 18  \* lines read from the source file
MaxSteps == 24      \* steps followed in one call of interpret() from main, beyond one per character

(* Program constants *)

CellMod == 256      \* unsigned char
STACK_SIZE == 65536
BUF_SIZE == 4096
EOF == -1
CtrlD == 4
NoCh == EOF - 1     \* no call of getchar

Instr == {">", "<", "+", "-", ".", ",", "[", "]"}
Alphabet == Instr \cup {"x"}

\* what getchar() can deliver: data bytes (among them 4, 10 and 255) or EOF
Inputs == {0, CtrlD, 65, 255, EOF}

InitVals == {0, 1}

Cooked == [icanon |-> TRUE, echo |-> TRUE]

Strs(n) == UNION {[1..k -> Alphabet] : k \in 0..n}

\* longer texts: loops, nested loops, unmatched brackets, reads
LongTexts ==
    { <<"+", "+", "[", ">", "+", "<", "-", "]", ">", ".">>,
      <<"+", "[", "[", "-", "]", "]">>,
      <<"[", "[", "]", "]", "+">>,
      <<"[", "[", "-", "]", ">", "]", ".">>,
      <<"[", "x", "[", ".", "]", "]", "+", ".">>,
      <<"+", "[", ">", "+", "[", "-", "]", "<", "-", "]">>,
      <<",", "[", ".", ",", "]">>,
      <<"+", "[", ".">>,
      <<"+", "[", "-", ".">>,
      <<"+", "[", "<">>,
      <<"[", "]", "]">>,
      <<"[", "-", "]", "]", "+">>,
      <<"[", "[", "]">>,
      <<"+", "[", "[", "-", "]">>,
      <<"-", "[", "-", "]">>,
      <<"[", "+", "]", ".">>,
      <<"+", "[", "]">>,
      <<",", ".", ",">>,
      <<"[", ">", "]", "<">> }

Programs == Strs(MaxProgLen) \cup LongTexts

\* lines typed in the interactive session / the text of the source file
SessionLines ==
    { <<"+">>, <<"-">>, <<">">>, <<"<">>, <<".">>, <<",">>, <<"x">>,
      <<"[">>, <<"]">>, <<"+", "[", "-", "]">>, <<"[", "+", "]">>,
      <<"+", "[", ">", "]">>, <<"+", "[">>, <<",", ".", ",">> }

\* argument of show / print: absent or unparsable, or an unsigned int
NoArg == 0 - 1
PrintDefault == 16
CmdArgs == {NoArg, 0, 1, MaxTape, MaxTape + 1, 2147483647}

-----------------------------------------------------------------------------
(* interpret(): helpers *)

Top == calls[Len(calls)]

strlen(f) == Len(prog) - f.in

CharAt(f, k) == prog[f.in + k + 1]

\* the absolute position in prog of a frame's in[i]
Pos(f) == f.in + f.i

stack_end == stack_size - 1

AtInstr(c) ==
    /\ pc = "fetch"
    /\ calls # <<>>
    /\ Top.i < strlen(Top)
    /\ CharAt(Top, Top.i) = c

\* `continue`: the for loop's i++
Advance == calls' = [calls EXCEPT ![Len(calls)].i = @ + 1]

Continue == pc' = "fetch" /\ err' = err

parse_err_next_line(msg) == err' = msg /\ pc' = "prompt"

parse_err(msg) == err' = msg /\ pc' = "exited"

\* what the latest step did: the instruction, its position and depth (as the
\* debug trace reports them), the tape indices it accessed, the value getchar
\* gave, the argument of a show / print command
TraceIn(op, idx, ch) ==
    /\ steps < MaxSteps + Len(prog)
    /\ steps' = steps + 1
    /\ last' = [op |-> op, pos |-> Pos(Top), lvl |-> Top.br_lvl, idx |-> idx, ch |-> ch,
                arg |-> NoArg]

Trace(op, idx) == TraceIn(op, idx, NoCh)

-----------------------------------------------------------------------------
(* Reference interpreter of the specification (not code of sbfi.c): bracket  *)
(* pairs computed once with a stack of open positions, then an explicit      *)
(* instruction pointer with while-cell-nonzero loops.  The variable ref runs  *)
(* it in lockstep with the engine: it steps when the engine completes an      *)
(* instruction or evaluates the while test of l.144.                          *)

RECURSIVE Pair(_, _, _, _)
Pair(p, k, opens, m) ==
    IF k > Len(p) THEN m
    ELSE IF p[k] = "[" THEN Pair(p, k + 1, <<k>> \o opens, m)
    ELSE IF p[k] = "]" /\ opens # <<>>
         THEN Pair(p, k + 1, Tail(opens),
                   [m EXCEPT ![Head(opens)] = k, ![k] = Head(opens)])
    ELSE Pair(p, k + 1, opens, m)

\* 1-based position -> 1-based position of the partner bracket, 0 if it has none
JumpTable(p) == Pair(p, 1, <<>>, [k \in 1..Len(p) |-> 0])

WellBracketed(p) ==
    \A k \in 1..Len(p) : p[k] \in {"[", "]"} => JumpTable(p)[k] # 0

\* 0-based positions of the `[` that have no matching `]`
UnmatchedOpens(p) == {k - 1 : k \in {n \in 1..Len(p) : p[n] = "[" /\ JumpTable(p)[n] = 0}}

RefDevice(ch) == IF ch \in {EOF, CtrlD} THEN EOF ELSE ch

RefEcho(ch) == IF ch = CtrlD THEN <<>> ELSE <<ch % CellMod>>

RefStart == [ip |-> 0, cells |-> cells, ptr |-> ptr, out |-> out, err |-> "none"]

RefStep(r, ch) ==
    IF r.err # "none" \/ r.ip >= Len(prog) THEN r
    ELSE LET c == prog[r.ip + 1]
             v == r.cells[r.ptr]
             jt == JumpTable(prog)
             next == [r EXCEPT !.ip = @ + 1]
         IN CASE c = ">" -> IF r.ptr + 1 < stack_size
                               THEN [next EXCEPT !.ptr = @ + 1]
                               ELSE [r EXCEPT !.err = "BoundaryError"]
              [] c = "<" -> IF r.ptr > 0
                               THEN [next EXCEPT !.ptr = @ - 1]
                               ELSE [r EXCEPT !.err = "BoundaryError"]
              [] c = "+" -> [next EXCEPT !.cells[r.ptr] = (v + 1) % CellMod]
              [] c = "-" -> [next EXCEPT !.cells[r.ptr] = (v + CellMod - 1) % CellMod]
              [] c = "." -> [next EXCEPT !.out = Append(@, v)]
              [] c = "," -> IF RefDevice(ch) = EOF
                               THEN [next EXCEPT !.out = @ \o RefEcho(ch)]
                               ELSE [next EXCEPT !.cells[r.ptr] = RefDevice(ch),
                                                 !.out = @ \o RefEcho(ch)]
              [] c = "[" -> IF v = 0 THEN [r EXCEPT !.ip = jt[r.ip + 1]] ELSE next
              [] c = "]" -> IF v # 0 THEN [r EXCEPT !.ip = jt[r.ip + 1]] ELSE next
              [] OTHER -> next

ErrKind(msg) ==
    CASE msg \in {"stack underflow!", "stack overflow!"} -> "BoundaryError"
      [] msg \in {"can't find closing brace!", "found unmatched brace!"} -> "UnmatchedBracketError"
      [] OTHER -> "none"

-----------------------------------------------------------------------------
(* main(): leaving interpret() *)

Teardown == pc' = "done" /\ cells' = <<>> /\ ptr' = 0 /\ stack_size' = 0

\* `return` / end of the for loop: back into the caller's while, or back to main
Return ==
    IF Len(calls) > 1
    THEN /\ calls' = SubSeq(calls, 1, Len(calls) - 1)
         /\ pc' = "while"
         /\ UNCHANGED <<cells, ptr, stack_size>>
    ELSE /\ calls' = <<>>
         /\ IF mode = "file"
               THEN Teardown
               ELSE pc' = "prompt" /\ UNCHANGED <<cells, ptr, stack_size>>

-----------------------------------------------------------------------------
(* interpret(): one action per case of the switch *)

MoveRight_off_by_one ==
    /\ AtInstr(">")
    /\ Trace(">", IF debug THEN {ptr + 1} ELSE {})
    /\ IF ptr <= stack_end
          THEN ptr' = ptr + 1 /\ Advance /\ Continue
          ELSE ptr' = ptr /\ calls' = calls /\ parse_err("stack underflow!")
    /\ ref' = RefStep(ref, EOF)
    /\ UNCHANGED <<config, cells, prog, out, term, old_tio, nlines, rerun, file>>

MoveRight ==
    /\ AtInstr(">")
    /\ Trace(">", IF debug THEN {ptr + 1} ELSE {})
    /\ IF ptr < stack_end
          THEN ptr' = ptr + 1 /\ Advance /\ Continue
          ELSE ptr' = ptr /\ calls' = calls /\ parse_err("stack underflow!")
    /\ ref' = RefStep(ref, EOF)
    /\ UNCHANGED <<config, cells, prog, out, term, old_tio, nlines, rerun, file>>

MoveLeft_wraps ==
    /\ AtInstr("<")
    /\ Trace("<", IF debug THEN {ptr - 1} ELSE {})
    /\ ptr' = IF ptr > 0 THEN ptr - 1 ELSE stack_end
    /\ Advance /\ Continue
    /\ ref' = RefStep(ref, EOF)
    /\ UNCHANGED <<config, cells, prog, out, term, old_tio, nlines, rerun, file>>

MoveLeft ==
    /\ AtInstr("<")
    /\ Trace("<", IF debug THEN {ptr - 1} ELSE {})
    /\ IF ptr > 0
          THEN ptr' = ptr - 1 /\ Advance /\ Continue
          ELSE ptr' = ptr /\ calls' = calls /\ parse_err("stack overflow!")
    /\ ref' = RefStep(ref, EOF)
    /\ UNCHANGED <<config, cells, prog, out, term, old_tio, nlines, rerun, file>>

Increment_saturating ==
    /\ AtInstr("+")
    /\ Trace("+", {ptr})
    /\ cells' = [cells EXCEPT ![ptr] = IF @ + 1 < CellMod THEN @ + 1 ELSE @]
    /\ Advance /\ Continue
    /\ ref' = RefStep(ref, EOF)
    /\ UNCHANGED <<config, ptr, prog, out, term, old_tio, nlines, rerun, file>>

Increment ==
    /\ AtInstr("+")
    /\ Trace("+", {ptr})
    /\ cells' = [cells EXCEPT ![ptr] = (@ + 1) % CellMod]
    /\ Advance /\ Continue
    /\ ref' = RefStep(ref, EOF)
    /\ UNCHANGED <<config, ptr, prog, out, term, old_tio, nlines, rerun, file>>

Decrement ==
    /\ AtInstr("-")
    /\ Trace("-", {ptr})
    /\ cells' = [cells EXCEPT ![ptr] = (@ - 1) % CellMod]
    /\ Advance /\ Continue
    /\ ref' = RefStep(ref, EOF)
    /\ UNCHANGED <<config, ptr, prog, out, term, old_tio, nlines, rerun, file>>

Output ==
    /\ AtInstr(".")
    /\ Len(out) < MaxOut
    /\ Trace(".", {ptr})
    /\ out' = Append(out, cells[ptr])
    /\ Advance /\ Continue
    /\ ref' = RefStep(ref, EOF)
    /\ UNCHANGED <<config, cells, ptr, prog, term, old_tio, nlines, rerun, file>>

Skip_as_increment ==
    /\ pc = "fetch" /\ calls # <<>> /\ Top.i < strlen(Top)
    /\ CharAt(Top, Top.i) \notin Instr
    /\ Trace("skip", {ptr})
    /\ cells' = [cells EXCEPT ![ptr] = (@ + 1) % CellMod]
    /\ Advance /\ Continue
    /\ ref' = RefStep(ref, EOF)
    /\ UNCHANGED <<config, ptr, prog, out, term, old_tio, nlines, rerun, file>>

\* l.183-184: default
Skip ==
    /\ pc = "fetch" /\ calls # <<>> /\ Top.i < strlen(Top)
    /\ CharAt(Top, Top.i) \notin Instr
    /\ Trace("skip", {})
    /\ Advance /\ Continue
    /\ ref' = RefStep(ref, EOF)
    /\ UNCHANGED <<config, cells, ptr, prog, out, term, old_tio, nlines, rerun, file>>

-----------------------------------------------------------------------------
(* getch() and case ',' *)

\* l.69-70: new_tio = old_tio; new_tio.c_lflag &= (~ICANON & ~ECHO)
Raw(tio) == [tio EXCEPT !.icanon = FALSE, !.echo = FALSE]

\* l.68-71: save the terminal configuration, switch to raw mode, block in getchar()
ReadBegin ==
    /\ AtInstr(",")
    /\ Len(out) < MaxOut
    /\ Trace("getch", {})
    /\ old_tio' = term
    /\ term' = Raw(term)
    /\ pc' = "getchar"
    /\ UNCHANGED <<config, cells, ptr, prog, calls, err, out, nlines, ref, rerun, file>>

tcsetattr_old_skipped_on_eof(ch) == term' = IF ch = EOF THEN term ELSE old_tio

\* l.73
tcsetattr_old(ch) == term' = old_tio

\* l.75-80: the value getch returns
getch_ret(ch) == IF ch = CtrlD THEN EOF ELSE ch

\* l.75-78: printf("%c", ch) unless ch == 4
getch_echo(ch) == IF ch = CtrlD THEN <<>> ELSE <<ch % CellMod>>

store_also_on_eof(inchar) ==
    cells' = [cells EXCEPT ![ptr] = inchar % CellMod]

\* l.131-139
store(inchar) ==
    IF inchar # EOF
       THEN cells' = [cells EXCEPT ![ptr] = inchar % CellMod]
       ELSE cells' = cells

\* stdin of a program that is run twice: the first run's bytes are kept, the
\* second run is given the same bytes in the same order
stdin(ch) ==
    CASE rerun.phase = 1 -> rerun' = [rerun EXCEPT !.ins = Append(@, ch)]
      [] rerun.phase = 2 -> /\ rerun.ins # <<>>
                            /\ ch = Head(rerun.ins)
                            /\ rerun' = [rerun EXCEPT !.ins = Tail(@)]
      [] OTHER -> rerun' = rerun

\* l.72-80, l.131-141: getchar() returns, the terminal is restored, the byte stored
ReadChar ==
    /\ pc = "getchar"
    /\ \E ch \in Inputs :
          /\ stdin(ch)
          /\ tcsetattr_old(ch)
          /\ out' = out \o getch_echo(ch)
          /\ store(getch_ret(ch))
          /\ TraceIn(",", IF getch_ret(ch) # EOF \/ debug THEN {ptr} ELSE {}, ch)
          /\ ref' = RefStep(ref, ch)
    /\ Advance /\ Continue
    /\ UNCHANGED <<config, ptr, prog, old_tio, nlines, file>>

-----------------------------------------------------------------------------
(* case '[' and case ']' *)

ScanFirstClose(f, j, lvl) ==
    LET S == {k \in j..(strlen(f) - 1) : CharAt(f, k) = "]"}
    IN IF S = {} THEN -1 ELSE CHOOSE k \in S : \A n \in S : k <= n

\* l.155-172: from in[j] with running depth lvl, the index where the depth
\* returns to zero, or -1 when the text ends first
RECURSIVE Scan(_, _, _)
Scan(f, j, lvl) ==
    IF j >= strlen(f) THEN -1
    ELSE LET c == CharAt(f, j)
             l2 == IF c = "[" THEN lvl + 1 ELSE IF c = "]" THEN lvl - 1 ELSE lvl
         IN IF l2 = 0 THEN j ELSE Scan(f, j + 1, l2)

\* l.142-143: br_lvl++
LoopOpen ==
    /\ AtInstr("[")
    /\ Trace("[", {})
    /\ calls' = [calls EXCEPT ![Len(calls)].br_lvl = @ + 1]
    /\ pc' = "while"
    /\ UNCHANGED <<config, cells, ptr, prog, err, out, term, old_tio, nlines, ref, rerun, file>>

LoopEnter_deeper ==
    /\ calls' = Append(calls, [in |-> Top.in + Top.i + 1, i |-> 0, br_lvl |-> Top.br_lvl + 1])
    /\ Continue

\* l.148: interpret(in+i+1, br_lvl)
LoopEnter ==
    /\ calls' = Append(calls, [in |-> Top.in + Top.i + 1, i |-> 0, br_lvl |-> Top.br_lvl])
    /\ Continue

LoopExit_resume_at_close ==
    LET j == Scan(Top, Top.i, 0)
    IN IF j < 0
          THEN /\ calls' = [calls EXCEPT ![Len(calls)].br_lvl = @ - 1]
               /\ parse_err("can't find closing brace!")
          ELSE /\ calls' = [calls EXCEPT ![Len(calls)] =
                                 [@ EXCEPT !.br_lvl = @ - 1, !.i = j]]
               /\ Continue

\* l.150-178: br_lvl--, the search of the closing brace, i = j and `continue`
LoopExit ==
    LET j == Scan(Top, Top.i, 0)
    IN IF j < 0
          THEN /\ calls' = [calls EXCEPT ![Len(calls)].br_lvl = @ - 1]
               /\ parse_err("can't find closing brace!")
          ELSE /\ calls' = [calls EXCEPT ![Len(calls)] =
                                 [@ EXCEPT !.br_lvl = @ - 1, !.i = j + 1]]
               /\ Continue

\* l.144-178: the while test; either the recursive call or the search of the closing brace
LoopTest ==
    /\ pc = "while"
    /\ Trace("while", {ptr})
    /\ IF cells[ptr] # 0 THEN LoopEnter ELSE LoopExit
    /\ ref' = RefStep(ref, EOF)
    /\ UNCHANGED <<config, cells, ptr, prog, out, term, old_tio, nlines, rerun, file>>

LoopClose_unchecked ==
    /\ AtInstr("]")
    /\ Trace("]", {})
    /\ err' = err /\ Return
    /\ UNCHANGED <<mode, debug, prog, out, term, old_tio, nlines, ref, rerun, file>>

\* l.179-182
LoopClose ==
    /\ AtInstr("]")
    /\ Trace("]", {})
    /\ IF Top.br_lvl = 0
          THEN /\ parse_err("found unmatched brace!")
               /\ UNCHANGED <<calls, cells, ptr, stack_size>>
          ELSE err' = err /\ Return
    /\ UNCHANGED <<mode, debug, prog, out, term, old_tio, nlines, ref, rerun, file>>

\* l.87: i < len fails, interpret returns
EndOfText ==
    /\ pc = "fetch" /\ calls # <<>> /\ Top.i >= strlen(Top)
    /\ Trace("end", {})
    /\ err' = err
    /\ Return
    /\ UNCHANGED <<mode, debug, prog, out, term, old_tio, nlines, ref, rerun, file>>

Exec ==
    \/ MoveRight \/ MoveLeft \/ Increment \/ Decrement \/ Output \/ Skip
    \/ ReadBegin \/ ReadChar
    \/ LoopOpen \/ LoopTest \/ LoopClose \/ EndOfText

-----------------------------------------------------------------------------
(* One call interpret(line_buf, 0) of an interactive session, on any tape   *)
(* earlier lines can have left.                                              *)

Tapes(n) == [0..(n - 1) -> InitVals]

NoTrace == [op |-> "none", pos |-> 0, lvl |-> 0, idx |-> {}, ch |-> NoCh, arg |-> NoArg]

Frame0 == [in |-> 0, i |-> 0, br_lvl |-> 0]

\* the program is run once
NoRerun == [phase |-> 0, text |-> <<>>, cells0 |-> <<>>, ptr0 |-> 0, ins |-> <<>>, res |-> <<>>]

\* no source file is being read
NoFile == [len |-> 0, cat |-> 0, hi |-> 0, n |-> 0, ub |-> FALSE]

ExecInit ==
    /\ mode = "interactive"
    /\ debug \in BOOLEAN
    /\ stack_size \in 1..MaxTape
    /\ cells \in Tapes(stack_size)
    /\ ptr \in 0..(stack_size - 1)
    /\ prog \in Programs
    /\ calls = <<Frame0>>
    /\ pc = "fetch"
    /\ err = "none"
    /\ out = <<>>
    /\ term = Cooked
    /\ old_tio = Cooked
    /\ nlines = 1
    /\ last = NoTrace
    /\ steps = 0
    /\ ref = RefStart
    /\ rerun = NoRerun
    /\ file = NoFile

ExecNext == Exec

ExecSpec == ExecInit /\ [][ExecNext]_vars

-----------------------------------------------------------------------------
(* The same call made twice: interpret(line_buf, 0) on a text, then on the   *)
(* same tape and the same input interpret(line_buf, 0) on that text without  *)
(* its non-instruction characters.                                           *)

\* texts with other characters before, between and inside loops
StripTexts ==
    { <<"x", "+", "x", "[", "x", "-", "x", "]", "x", ".", "x">>,
      <<"[", "x", "-", "x", "[", "x", "]", "x", "]", "x", ".">>,
      <<"[", " ", "[", "x", "]", " ", "]", "+", ".">>,
      <<"+", "[", "x", ">", "+", " ", "<", "-", "x", "]", ">", ".">>,
      <<",", "x", "[", "x", ".", "x", ",", "x", "]">>,
      <<"+", "[", "x", "[", "x", "-", "]", "x", "]", "x", ".">>,
      <<"+", "x", "[", "x">>,
      <<"[", "x", "[", "x", "]">>,
      <<"x", "]", "x">>,
      <<"+", "[", "x", "-", "]", "x", "]">>,
      <<">", "x", ">", "x", ">">>,
      <<"x", "+", "[", "x", "<", "x", "]">> }

Strip(p) == SelectSeq(p, LAMBDA c : c \in Instr)

\* the texts that hold at least one character that is no instruction
StripPrograms == {p \in Strs(MaxProgLen) : Strip(p) # p} \cup StripTexts

\* interpret() has returned to main, or parse_err has ended the process
Finished == pc \in {"prompt", "exited"}

Result == [cells |-> cells, ptr |-> ptr, out |-> out, err |-> err]

\* the second call: the tape and the input as they were, the text stripped
Rerun ==
    /\ rerun.phase = 1
    /\ Finished
    /\ rerun' = [rerun EXCEPT !.phase = 2, !.res = Result]
    /\ prog' = Strip(rerun.text)
    /\ cells' = rerun.cells0
    /\ ptr' = rerun.ptr0
    /\ calls' = <<Frame0>>
    /\ pc' = "fetch"
    /\ err' = "none"
    /\ out' = <<>>
    /\ steps' = 0
    /\ last' = NoTrace
    /\ ref' = [ip |-> 0, cells |-> rerun.cells0, ptr |-> rerun.ptr0, out |-> <<>>, err |-> "none"]
    /\ UNCHANGED <<config, term, old_tio, nlines, file>>

StripInit ==
    /\ mode = "interactive"
    /\ debug \in BOOLEAN
    /\ stack_size \in 1..MaxTape
    /\ cells \in Tapes(stack_size)
    /\ ptr \in 0..(stack_size - 1)
    /\ prog \in StripPrograms
    /\ calls = <<Frame0>>
    /\ pc = "fetch"
    /\ err = "none"
    /\ out = <<>>
    /\ term = Cooked
    /\ old_tio = Cooked
    /\ nlines = 1
    /\ last = NoTrace
    /\ steps = 0
    /\ ref = RefStart
    /\ rerun = [phase |-> 1, text |-> prog, cells0 |-> cells, ptr0 |-> ptr,
                ins |-> <<>>, res |-> <<>>]
    /\ file = NoFile

StripNext == Exec \/ Rerun

StripSpec == StripInit /\ [][StripNext]_vars

-----------------------------------------------------------------------------
(* interpret(line_buf, 0) on texts of `+` and `-` only, the cell under the   *)
(* cursor holding any byte.                                                  *)

ArithTexts == { [k \in 1..CellMod |-> "+"], <<"+", "-">>, <<"-", "+">> }

ArithInit ==
    /\ mode = "interactive"
    /\ debug = FALSE
    /\ stack_size \in 1..MaxTape
    /\ ptr \in 0..(stack_size - 1)
    /\ \E v \in 0..(CellMod - 1), t \in Tapes(stack_size) :
          cells = [t EXCEPT ![ptr] = v]
    /\ prog \in ArithTexts
    /\ calls = <<Frame0>>
    /\ pc = "fetch"
    /\ err = "none"
    /\ out = <<>>
    /\ term = Cooked
    /\ old_tio = Cooked
    /\ nlines = 1
    /\ last = NoTrace
    /\ steps = 0
    /\ ref = RefStart
    /\ rerun = [NoRerun EXCEPT !.text = prog, !.cells0 = cells, !.ptr0 = ptr]
    /\ file = NoFile

ArithNext == Increment \/ Decrement \/ EndOfText

ArithSpec == ArithInit /\ [][ArithNext]_vars

-----------------------------------------------------------------------------
(* main(): reading the source file into command[STACK_SIZE], l.248-264.      *)
(* The text is followed by its length: file.len is strlen(command), file.cat *)
(* the length of all lines read so far, file.hi the highest index of         *)
(* command[] that the latest strncat wrote.                                  *)

\* strlen(line_buf) once the newline is replaced: fgets stores at most BUF_SIZE - 1
\* characters, the newline among them when the line ends within that
LineLens == {0, 1, BUF_SIZE - 2, BUF_SIZE - 1}

\* l.256-263: one iteration of the while loop.  strncat appends
\* min(strlen(line_buf), size) characters and then a terminating NUL; a NUL
\* written at command[STACK_SIZE] is outside the array, after which the build
\* either carries on or aborts (fortified strncat, stack protector)
ReadFileLine ==
    /\ pc = "reading"
    /\ file.n < MaxFileLines
    /\ \E k \in LineLens :
          LET size == STACK_SIZE - file.len
              nul == file.len + (IF k < size THEN k ELSE size)
          IN /\ file' = [len |-> IF nul > STACK_SIZE - 1 THEN STACK_SIZE - 1 ELSE nul,
                         cat |-> file.cat + k,
                         hi |-> nul,
                         n |-> file.n + 1,
                         ub |-> file.ub \/ nul >= STACK_SIZE]
             /\ \E abort \in (IF nul >= STACK_SIZE THEN BOOLEAN ELSE {FALSE}) :
                   pc' = IF abort THEN "exited" ELSE pc
    /\ UNCHANGED <<config, cells, ptr, prog, calls, err, out, term, old_tio, nlines,
                   last, steps, ref, rerun>>

\* l.256, l.265: fgets returns NULL, command is handed to interpret
FileEnd ==
    /\ pc = "reading"
    /\ pc' = "loaded"
    /\ UNCHANGED <<config, cells, ptr, prog, calls, err, out, term, old_tio, nlines,
                   last, steps, ref, rerun, file>>

\* l.248-251: infile is open, command[0] = 0
FileInit ==
    /\ mode = "file"
    /\ debug \in BOOLEAN
    /\ stack_size \in 1..MaxTape
    /\ cells = [k \in 0..(stack_size - 1) |-> 0]
    /\ ptr = 0
    /\ prog = <<>>
    /\ calls = <<>>
    /\ pc = "reading"
    /\ err = "none"
    /\ out = <<>>
    /\ term = Cooked
    /\ old_tio = Cooked
    /\ nlines = 0
    /\ last = NoTrace
    /\ steps = 0
    /\ ref = RefStart
    /\ rerun = NoRerun
    /\ file = NoFile

FileNext == ReadFileLine \/ FileEnd

FileSpec == FileInit /\ [][FileNext]_vars

-----------------------------------------------------------------------------
(* main(): the interactive loop, l.267-323 *)

Prompted == pc = "prompt" /\ nlines < MaxLines

CommandArg(op, idx, n) ==
    /\ nlines' = nlines + 1
    /\ last' = [op |-> op, pos |-> 0, lvl |-> 0, idx |-> idx, ch |-> NoCh, arg |-> n]

Command(op, idx) == CommandArg(op, idx, NoArg)

\* l.269-272: fgets returns NULL
InputEnd ==
    /\ pc = "prompt"
    /\ Command("eof", {})
    /\ Teardown
    /\ UNCHANGED <<mode, debug, prog, calls, err, out, term, old_tio, steps, ref, rerun, file>>

\* l.274-276
CmdExit ==
    /\ pc = "prompt"
    /\ Command("exit", {})
    /\ Teardown
    /\ UNCHANGED <<mode, debug, prog, calls, err, out, term, old_tio, steps, ref, rerun, file>>

CmdClear_rewinds ==
    /\ Prompted
    /\ Command("clear", 0..(stack_size - 1))
    /\ cells' = [k \in 0..(stack_size - 1) |-> 0]
    /\ ptr' = 0
    /\ UNCHANGED <<config, prog, calls, pc, err, out, term, old_tio, steps, ref, rerun, file>>

\* l.277-282
CmdClear ==
    /\ Prompted
    /\ Command("clear", 0..(stack_size - 1))
    /\ cells' = [k \in 0..(stack_size - 1) |-> 0]
    /\ UNCHANGED <<config, ptr, prog, calls, pc, err, out, term, old_tio, steps, ref, rerun, file>>

\* l.283-285
CmdLen ==
    /\ Prompted
    /\ Command("len", {})
    /\ UNCHANGED <<config, cells, ptr, prog, calls, pc, err, out, term, old_tio, steps, ref, rerun, file>>

ShowPos_off_by_one(n) ==
    LET pos == IF n = NoArg THEN 0 ELSE n
    IN IF pos > stack_size THEN stack_size - 1 ELSE pos

\* l.287-292
ShowPos(n) ==
    LET pos == IF n = NoArg THEN 0 ELSE n
    IN IF pos >= stack_size THEN stack_size - 1 ELSE pos

\* l.286-295
CmdShow ==
    /\ Prompted
    /\ \E n \in CmdArgs : CommandArg("show", {ShowPos(n)}, n)
    /\ UNCHANGED <<config, cells, ptr, prog, calls, pc, err, out, term, old_tio, steps, ref, rerun, file>>

\* l.297-302
PrintNum(n) ==
    LET num == IF n = NoArg THEN PrintDefault ELSE n
    IN IF num > stack_size THEN stack_size ELSE num

\* l.296-312
CmdPrint ==
    /\ Prompted
    /\ \E n \in CmdArgs : CommandArg("print", 0..(PrintNum(n) - 1), n)
    /\ UNCHANGED <<config, cells, ptr, prog, calls, pc, err, out, term, old_tio, steps, ref, rerun, file>>

RunLine_fresh_tape ==
    /\ Prompted
    /\ Command("line", {})
    /\ prog' \in SessionLines
    /\ calls' = <<Frame0>>
    /\ pc' = "fetch"
    /\ steps' = 0
    /\ cells' = [k \in 0..(stack_size - 1) |-> 0]
    /\ ptr' = 0
    /\ ref' = [ip |-> 0, cells |-> cells', ptr |-> 0, out |-> out, err |-> "none"]
    /\ UNCHANGED <<config, err, out, term, old_tio, rerun, file>>

\* l.313-322: interpret(line_buf, 0)
RunLine ==
    /\ Prompted
    /\ Command("line", {})
    /\ prog' \in SessionLines
    /\ calls' = <<Frame0>>
    /\ pc' = "fetch"
    /\ steps' = 0
    /\ ref' = RefStart
    /\ UNCHANGED <<config, cells, ptr, err, out, term, old_tio, rerun, file>>

\* l.189-265: after option parsing and calloc; with -f the file's text is interpreted
Init ==
    /\ mode \in {"file", "interactive"}
    /\ debug \in BOOLEAN
    /\ stack_size \in 1..MaxTape
    /\ cells = [k \in 0..(stack_size - 1) |-> 0]
    /\ ptr = 0
    /\ IF mode = "file"
          THEN prog \in SessionLines /\ calls = <<Frame0>> /\ pc = "fetch"
          ELSE prog = <<>> /\ calls = <<>> /\ pc = "prompt"
    /\ err = "none"
    /\ out = <<>>
    /\ term = Cooked
    /\ old_tio = Cooked
    /\ nlines = 0
    /\ last = NoTrace
    /\ steps = 0
    /\ ref = RefStart
    /\ rerun = NoRerun
    /\ file = NoFile

Next ==
    \/ MoveRight \/ MoveLeft \/ Increment \/ Decrement \/ Output \/ Skip
    \/ ReadBegin \/ ReadChar
    \/ LoopOpen \/ LoopTest \/ LoopClose \/ EndOfText
    \/ InputEnd \/ CmdExit \/ CmdClear \/ CmdLen \/ CmdShow \/ CmdPrint \/ RunLine

Spec == Init /\ [][Next]_vars

-----------------------------------------------------------------------------
(* Claims *)

\* C1: while the tape exists (until main frees it on its way out), the cursor
\* is a valid index: 0 <= cursor < tape length, after instructions, program
\* lines and the commands clear, len, show, print alike.
C1_CursorInTape == pc # "done" => (0 <= ptr /\ ptr < stack_size)

C1_Witness ==
    /\ last.op \in {"clear", "len", "show", "print"}
    /\ ptr > 0
    /\ ptr = stack_size - 1

\* C2: on a well-bracketed text the recursive engine and the reference
\* interpreter (jump table, instruction pointer) agree at every step: same
\* next instruction, same cells and cursor, same output bytes, same error
\* outcome; and the engine returns to main exactly when the reference halts.
C2_RefinesReference ==
    WellBracketed(prog) =>
        /\ ref.cells = cells /\ ref.ptr = ptr /\ ref.out = out
        /\ ref.err = ErrKind(err)
        /\ pc \in {"fetch", "getchar"} => ref.ip = Pos(Top)
        /\ pc = "while" => ref.ip \in {Pos(Top), JumpTable(prog)[Pos(Top) + 1] - 1}
        /\ pc = "prompt" => ref.ip = Len(prog) /\ err = "none"
        /\ pc = "exited" => ref.ip = Pos(Top) /\ ref.err = "BoundaryError"

C2_Witness ==
    /\ prog = <<"+", "+", "[", ">", "+", "<", "-", "]", ">", ".">>
    /\ pc = "prompt"
    /\ out = <<2>>
    /\ ref.out = <<2>>
    /\ ref.ip = Len(prog)

\* the `[` at position p has been dispatched: its while loop is running, or
\* has just reported the missing closing brace
Dispatched(p) ==
    \E k \in 1..Len(calls) :
        /\ Pos(calls[k]) = p
        /\ \/ k < Len(calls)
           \/ pc = "while"
           \/ pc = "exited" /\ last.op = "while"

\* the latest step wrote a byte to the output
Emitted == last.op = "." \/ (last.op = "," /\ getch_echo(last.ch) # <<>>)

\* C3: a `[` with no matching `]`: once it is dispatched, the run can only end
\* in "can't find closing brace", and no instruction located past it writes
\* output.
C3_UnmatchedOpenFails ==
    \A p \in UnmatchedOpens(prog) :
        /\ Emitted => last.pos < p
        /\ Dispatched(p) /\ pc \in {"exited", "prompt", "done"} =>
               err = "can't find closing brace!"

TopPos == Pos(Top)

\* C4: a `]` dispatched at nesting depth 0 reports "found unmatched brace" at
\* once, the process exits and cells, cursor and output stay as they were; a
\* `]` dispatched at depth > 0 raises no error and only ends the current call
\* of interpret (its frame is popped, nothing else changes).
C4_CloseAtDepth ==
    /\ [][AtInstr("]") /\ Top.br_lvl = 0 =>
             /\ err' = "found unmatched brace!"
             /\ pc' = "exited"
             /\ UNCHANGED <<cells, ptr, out, calls>>]_vars
    /\ [][AtInstr("]") /\ Top.br_lvl > 0 =>
             /\ err' = "none"
             /\ pc' # "exited"
             /\ calls' = SubSeq(calls, 1, Len(calls) - 1)
             /\ UNCHANGED <<cells, ptr, out>>]_vars

\* one loop iteration has run and returned at its `]` (depth 1), then a `]`
\* at depth 0 has failed
C4_Witness ==
    /\ prog = <<"[", "-", "]", "]", "+">>
    /\ err = "found unmatched brace!"
    /\ pc = "exited"
    /\ last.op = "]" /\ last.lvl = 0 /\ last.pos = 3
    /\ steps = 6

AtBoundary ==
    \/ AtInstr(">") /\ ptr = stack_size - 1
    \/ AtInstr("<") /\ ptr = 0

\* C5: `>` at the last cell and `<` at the first cell end in a boundary error
\* (parse_err, the process exits); cursor and cells are unchanged, the cursor
\* is neither clamped silently nor wrapped.
C5_BoundaryRejected ==
    [][AtBoundary =>
          /\ ErrKind(err') = "BoundaryError"
          /\ pc' = "exited"
          /\ UNCHANGED <<cells, ptr>>]_vars

C5_Witness ==
    /\ ErrKind(err) = "BoundaryError"
    /\ pc = "exited"
    /\ last.op = "<" /\ ptr = 0
    /\ stack_size > 1
    /\ \E k \in 0..(stack_size - 1) : cells[k] # 0

Failed == err # "none"

\* C6: once parse_err has been called (boundary or bracket error, at any
\* depth), nothing changes any more: no instruction, no output, no tape
\* change, no further line or command.
C6_FatalHalts == [][Failed => UNCHANGED vars]_vars

\* an error inside a loop body of an interactive line, with lines and steps
\* left in the model's bounds
C6_Witness ==
    /\ Failed
    /\ mode = "interactive"
    /\ Len(calls) > 1
    /\ nlines < MaxLines
    /\ steps < MaxSteps + Len(prog)

\* the `[` at the top frame's position has just been dispatched (br_lvl++)
AtOpenTest == pc = "while" /\ last.op = "["

\* C7: in a well-bracketed text, `[` dispatched on a zero cell runs the body
\* zero times (no call of interpret), leaves cells, cursor and output alone,
\* and the scan resumes at the instruction after the `]` paired with this `[`
\* by the bracket structure, nested pairs and an empty body included.
C7_ZeroCellSkipsLoop ==
    /\ [][AtInstr("[") /\ cells[ptr] = 0 =>
             pc' = "while" /\ UNCHANGED <<cells, ptr, out, err>>]_vars
    /\ [][AtOpenTest /\ cells[ptr] = 0 /\ WellBracketed(prog) =>
             /\ pc' = "fetch"
             /\ Len(calls') = Len(calls)
             /\ TopPos' = JumpTable(prog)[TopPos + 1]
             /\ calls'[Len(calls')].br_lvl = last.lvl
             /\ UNCHANGED <<cells, ptr, out, err>>]_vars

\* `[[]]+` on a zero cell: resumed at the `+`, past the outer `]`
C7_Witness ==
    /\ prog = <<"[", "[", "]", "]", "+">>
    /\ pc = "fetch"
    /\ last.op = "while"
    /\ Len(calls) = 1 /\ TopPos = 4
    /\ steps = 2
    /\ out = <<>>

\* C8: every byte value 0..255 that getchar delivers is stored into the
\* current cell by `,`.
C8_EveryByteStored ==
    (last.op = "," /\ last.ch \in 0..(CellMod - 1)) => cells[ptr] = last.ch

\* C9: `,` on end-of-input (getchar gives EOF, or the byte 4 that getch turns
\* into EOF) changes no cell and not the cursor, raises no error, and the
\* scan goes on with the next instruction.
C9_EofIsNoOp ==
    [][(pc = "getchar" /\ last'.ch \in {EOF, CtrlD}) =>
          /\ UNCHANGED <<cells, ptr, err>>
          /\ err = "none"
          /\ pc' = "fetch"
          /\ Len(calls') = Len(calls)
          /\ TopPos' = TopPos + 1]_vars

\* a non-zero cell kept over a read that hit end-of-input, then the next
\* instruction executed
C9_Witness ==
    /\ prog = <<",", ".", ",">>
    /\ out = <<255, 1>>
    /\ last.op = "."
    /\ cells[ptr] = 1
    /\ err = "none"

InRead == pc = "getchar"

\* C10: outside getch's getchar() the terminal has the configuration it had
\* before the read (canonical, echo); inside it is raw and old_tio holds the
\* configuration to restore.
C10_TerminalRestored ==
    /\ ~InRead => term = Cooked
    /\ InRead => term = Raw(Cooked) /\ old_tio = Cooked

\* after a read that hit end-of-input and after one that read a data byte
C10_Witness ==
    /\ prog = <<",", ".", ",">>
    /\ pc = "fetch"
    /\ last.op = "," /\ last.ch = 65 /\ last.pos = 2
    /\ out = <<255, 0, 65>>
    /\ term = Cooked

\* C11: characters outside > < + - . , [ ] are no-ops.  A text and the same
\* text with every such character removed, run from the same tape, cursor and
\* input, finish with the same output, cells, cursor and error outcome; the
\* removed characters may stand inside loop bodies that are skipped or run.
C11_StrippedTextAgrees ==
    (rerun.phase = 2 /\ Finished) => Result = rerun.res

C11_Witness ==
    /\ rerun.phase = 2
    /\ rerun.text = <<"+", "[", "x", ">", "+", " ", "<", "-", "x", "]", ">", ".">>
    /\ prog = <<"+", "[", ">", "+", "<", "-", "]", ">", ".">>
    /\ pc = "prompt"
    /\ rerun.res.out = <<2>>
    /\ out = <<2>>

\* C12: `clear` sets every cell to 0 and leaves the cursor (and the tape size)
\* as they were, from whatever tape the earlier lines left; a `clear` directly
\* after a `clear` changes nothing more.
C12_ClearResets ==
    [][(nlines' = nlines + 1 /\ last'.op = "clear") =>
          /\ stack_size' = stack_size
          /\ cells' = [k \in 0..(stack_size - 1) |-> 0]
          /\ ptr' = ptr
          /\ last.op = "clear" => cells' = cells]_vars

C12_Witness ==
    /\ last.op = "clear"
    /\ prog = <<"+", "[", ">", "]">>
    /\ err = "none"
    /\ ptr = 1
    /\ \A k \in 0..(stack_size - 1) : cells[k] = 0

\* C13: `+` and `-` change the cell under the cursor and nothing else, by +1
\* and -1 modulo 256 (255 + 1 = 0, 0 - 1 = 255), and never fail; so a text of
\* 256 `+`, the text `+-` and the text `-+` each leave every cell as it was,
\* whatever byte the cell held.
C13_CellArithmetic ==
    /\ [][(AtInstr("+") \/ AtInstr("-")) =>
             /\ cells' = [cells EXCEPT ![ptr] =
                             IF AtInstr("+")
                                THEN (IF @ = 255 THEN 0 ELSE @ + 1)
                                ELSE (IF @ = 0 THEN 255 ELSE @ - 1)]
             /\ ptr' = ptr
             /\ err' = "none"
             /\ pc' = "fetch"]_vars
    /\ [](pc = "prompt" => (cells = rerun.cells0 /\ ptr = rerun.ptr0 /\ err = "none"))

C13_Witness ==
    /\ Len(prog) = CellMod
    /\ pc = "prompt"
    /\ cells[ptr] = 200
    /\ rerun.cells0[ptr] = 200
    /\ steps = CellMod + 1

\* C14: in interactive mode the tape persists between lines.  Returning from
\* a program line to the prompt, reading the next line and the commands len,
\* show and print leave every cell, the cursor and the tape size as they are
\* (only clear changes cells on the way from one program line to the next);
\* and every program line starts as one call of interpret at nesting depth 0.
C14_TapePersists ==
    [][/\ (pc # "prompt" /\ pc' = "prompt") => UNCHANGED <<cells, ptr, stack_size>>
       /\ (pc = "prompt" /\ last'.op \in {"len", "show", "print", "line"}) =>
             UNCHANGED <<cells, ptr, stack_size>>
       /\ (pc = "prompt" /\ last'.op = "clear") => UNCHANGED <<ptr, stack_size>>
       /\ (pc = "prompt" /\ last'.op = "line") =>
             /\ pc' = "fetch"
             /\ Len(calls') = 1
             /\ calls'[1].br_lvl = 0
             /\ calls'[1].i = 0]_vars

C14_Witness ==
    /\ last.op = "line"
    /\ nlines > 1
    /\ pc = "fetch"
    /\ steps = 0
    /\ calls = <<Frame0>>
    /\ ptr = 1
    /\ cells[0] = 1

\* C15: a `,` echoes the byte it read exactly when a byte was read: the step
\* in which getchar returns appends that byte to the output when it is a data
\* byte, and appends nothing on end-of-input (EOF, or the Ctrl-D byte that
\* getch takes for end-of-input).
C15_EchoIffByteRead ==
    [][pc = "getchar" =>
          IF last'.ch \in {EOF, CtrlD}
             THEN out' = out
             ELSE out' = Append(out, last'.ch)]_vars

\* the largest number of `[` open at once when the text is read left to right
\* (a `]` closes the innermost open `[`, if there is one)
RECURSIVE Nesting(_, _, _, _)
Nesting(p, k, d, m) ==
    IF k > Len(p) THEN m
    ELSE IF p[k] = "[" THEN Nesting(p, k + 1, d + 1, IF d + 1 > m THEN d + 1 ELSE m)
    ELSE IF p[k] = "]" /\ d > 0 THEN Nesting(p, k + 1, d - 1, m)
    ELSE Nesting(p, k + 1, d, m)

MaxNesting(p) == Nesting(p, 1, 0, 0)

\* C16: the nesting depth is the number of open loop scopes.  In every active
\* call of interpret that is inside the while of a `[`, and in the innermost
\* call while it tests that while, br_lvl is the call's own depth plus one (the
\* loop just opened); while the innermost call dispatches instructions, br_lvl
\* is the number of recursive calls below it.  The number of recursive calls
\* never exceeds the deepest bracket nesting of the text, however often the
\* loops iterate.
C16_DepthIsOpenScopes ==
    calls # <<>> =>
        /\ \A k \in 1..Len(calls) :
              calls[k].br_lvl = IF k < Len(calls) \/ pc = "while" THEN k ELSE k - 1
        /\ Len(calls) - 1 <= MaxNesting(prog)

C16_Witness ==
    /\ prog = <<"+", "[", ">", "+", "[", "-", "]", "<", "-", "]">>
    /\ Len(calls) = 3
    /\ pc = "fetch"
    /\ Top.br_lvl = 2
    /\ MaxNesting(prog) = 2
    /\ steps > Len(prog)

\* C17: the boundary failure of `>` at the last cell is reported as "stack
\* overflow", that of `<` at the first cell as "stack underflow".
C17_BoundaryMessages ==
    /\ (last.op = ">" /\ Failed) => err = "stack overflow!"
    /\ (last.op = "<" /\ Failed) => err = "stack underflow!"

Min(a, b) == IF a <= b THEN a ELSE b

\* C18: `show N` reads exactly the cell min(N, size - 1), cell 0 when N is
\* absent or unparsable; `print N` reads exactly the cells 0 .. min(N, size) - 1,
\* with N = 16 when absent or unparsable; so neither reads outside 0 .. size - 1,
\* however large N is.
C18_CommandsReadInsideTape ==
    /\ last.op = "show" =>
          last.idx = {Min(IF last.arg = NoArg THEN 0 ELSE last.arg, stack_size - 1)}
    /\ last.op = "print" =>
          last.idx = 0..(Min(IF last.arg = NoArg THEN 16 ELSE last.arg, stack_size) - 1)
    /\ last.op \in {"show", "print"} => last.idx \subseteq 0..(stack_size - 1)

C18_Witness ==
    /\ last.op = "show"
    /\ last.arg > stack_size
    /\ stack_size > 1
    /\ last.idx = {stack_size - 1}
    /\ ptr = 0

\* C19: every tape access of the engine is inside the tape: the indices an
\* instruction reads or writes, the reads of the debug trace included, lie in
\* 0 .. size - 1, also for `>` at the last cell and `<` at the first cell.
C19_EngineAccessInsideTape == last.idx \subseteq 0..(stack_size - 1)

\* C20: while the source file is read, no byte is written to command[] at an
\* index of STACK_SIZE or beyond, whatever the lengths of the lines (0 to
\* BUF_SIZE - 1), and the text held is the concatenation of the lines cut to at
\* most STACK_SIZE - 1 characters.
C20_FileBufferInBounds ==
    /\ file.hi <= STACK_SIZE - 1
    /\ file.len = Min(file.cat, STACK_SIZE - 1)

=============================================================================
